---- MODULE Spec2Model ----
(***************************************************************************)
(* A model of src/app.py: the FRED dashboard.  fetch_fred_data (an HTTP    *)
(* GET, the pandas cleaning of the observations, the one-hour cache put    *)
(* around it by st.cache_data) and main (the widgets, the date-range       *)
(* check, the date filter, the messages and the chart).                    *)
(*                                                                         *)
(* Two specifications share the definitions:                               *)
(*   Spec      a browser session: reruns of main, the clock, the cache     *)
(*             and the network request in flight;                          *)
(*   SpecStub  fetch_fred_data and the date filter run once against a      *)
(*             network stub that returns a well-formed payload.            *)
(***************************************************************************)
EXTENDS Integers, Sequences, FiniteSets

VARIABLES
    pc,            \* position of the script: "idle", "waiting", "done", "crashed" (Spec);
                   \* "stub", "fetched", "filtered", "recleaned", "crashed" (SpecStub)
    now,           \* the clock, in seconds
    ticks,         \* how many times the clock advanced
    reruns,        \* how many reruns of main were started
    secrets,       \* st.secrets: whether secrets.toml is there, and its keys
    cache,         \* st.cache_data's store: series id -> entry or NoEntry
    obtained,      \* history: series id -> the last result a run of the body returned
    sel,           \* selected_series_name
    start_date,    \* start_date widget value
    end_date,      \* end_date widget value
    inflight,      \* the set of series ids with an HTTP request in flight
    reqs,          \* the series ids requested over the network in this rerun
    fetched,       \* whether this rerun called fetch_fred_data
    served,        \* the call's return: [returned, hit, obtained_at, at]
    resp,          \* the HTTP response that produced the result main holds
    df,            \* main's df
    df_filtered,   \* main's df_filtered
    msgs,          \* the messages this rerun put on the page, in order
    chart,         \* whether this rerun rendered the chart and the data preview
    crash,         \* the exception that ended this rerun, or "none"
    recleaned      \* SpecStub: the result of cleaning the cleaned series again

vars == <<pc, now, ticks, reruns, secrets, cache, obtained, sel, start_date, end_date,
          inflight, reqs, fetched, served, resp, df, df_filtered, msgs, chart,
          crash, recleaned>>

(***************************************************************************)
(* Bounds of the model.                                                    *)
(***************************************************************************)
MaxObs == 2
MaxTicks == 2
MaxReruns == 2

(***************************************************************************)
(* Configuration: FRED_SERIES and the cache's time to live.                *)
(***************************************************************************)
TTL == 3600

FRED_SERIES ==
    [n \in {"Federal Funds Rate (DFF)", "Real GDP (GDPC1)",
            "Unemployment Rate (UNRATE)", "CPI (CPIAUCSL)",
            "10-Year Treasury Yield (DGS10)"} |->
        [id |-> CASE n = "Federal Funds Rate (DFF)" -> "DFF"
                  [] n = "Real GDP (GDPC1)" -> "GDPC1"
                  [] n = "Unemployment Rate (UNRATE)" -> "UNRATE"
                  [] n = "CPI (CPIAUCSL)" -> "CPIAUCSL"
                  [] OTHER -> "DGS10"]]

SeriesIds == {FRED_SERIES[n].id : n \in DOMAIN FRED_SERIES}

(***************************************************************************)
(* Messages, by the line that shows them.                                  *)
(***************************************************************************)
ERR_NO_KEY == "FRED API Key not found"
ERR_NO_OBS == "No observations found for series ID"
ERR_FETCH_FAILED == "Failed to fetch data from FRED API"
ERR_UNEXPECTED == "An unexpected error occurred"
ERR_DATE_RANGE == "Error: End Date cannot be before Start Date."
INFO_HEADER == "Historical Trend"
WARN_NO_DATA_IN_RANGE == "No data available for the selected date range"
SUCCESS == "fetched and filtered successfully"
WARN_COULD_NOT_LOAD == "Could not load data"

(***************************************************************************)
(* Values of a DataFrame cell and of a JSON field.                         *)
(***************************************************************************)
Str(s) == [kind |-> "str", v |-> s]
Ts(n) == [kind |-> "ts", v |-> n]
Float(x) == [kind |-> "float", v |-> x]
NaN == [kind |-> "nan", v |-> 0]
IntLabel(i) == [kind |-> "int", v |-> i]

(***************************************************************************)
(* Calendar dates.  A date object is [year, month, day]; its ISO string    *)
(* "YYYY-MM-DD" is the sequence <<year, month, day>> of its fields; a      *)
(* Timestamp is the day's proleptic Gregorian ordinal (midnight).          *)
(***************************************************************************)
Date(y, m, d) == [year |-> y, month |-> m, day |-> d]

IsLeap(y) == (y % 4 = 0) /\ ((y % 100 # 0) \/ (y % 400 = 0))

DaysInMonth(y, m) ==
    IF m = 2 THEN (IF IsLeap(y) THEN 29 ELSE 28)
    ELSE IF m \in {4, 6, 9, 11} THEN 30 ELSE 31

RECURSIVE DaysBeforeMonth(_, _)
DaysBeforeMonth(y, m) ==
    IF m <= 1 THEN 0 ELSE DaysBeforeMonth(y, m - 1) + DaysInMonth(y, m - 1)

Ordinal(y, m, d) ==
    365 * (y - 1) + ((y - 1) \div 4) - ((y - 1) \div 100) + ((y - 1) \div 400)
    + DaysBeforeMonth(y, m) + d

\* date.isoformat()
isoformat(d) == Str(<<d.year, d.month, d.day>>)

\* date.__gt__ : start_date > end_date
DateGt(a, b) ==
    \/ a.year > b.year
    \/ a.year = b.year /\ a.month > b.month
    \/ a.year = b.year /\ a.month = b.month /\ a.day > b.day

ValidDateString(s) ==
    /\ Len(s) = 3
    /\ s[2] \in 1..12
    /\ s[3] \in 1..DaysInMonth(s[1], s[2])

\* pd.to_datetime of one cell: [exc, val]
to_datetime(c) ==
    IF c.kind = "ts" THEN [exc |-> "none", val |-> c]
    ELSE IF c.kind = "str" /\ ValidDateString(c.v)
         THEN [exc |-> "none", val |-> Ts(Ordinal(c.v[1], c.v[2], c.v[3]))]
         ELSE [exc |-> "ValueError", val |-> c]

(***************************************************************************)
(* Numbers.  A value string is a sequence of characters; a float is kept   *)
(* in tenths (the value strings of the model have one decimal at most).    *)
(***************************************************************************)
Digits == {"0", "1", "2", "3", "4", "5", "6", "7", "8", "9"}

DigitVal(c) ==
    CASE c = "0" -> 0 [] c = "1" -> 1 [] c = "2" -> 2 [] c = "3" -> 3
      [] c = "4" -> 4 [] c = "5" -> 5 [] c = "6" -> 6 [] c = "7" -> 7
      [] c = "8" -> 8 [] OTHER -> 9

AllDigits(s) == \A i \in DOMAIN s : s[i] \in Digits

RECURSIVE IntVal(_)
IntVal(s) ==
    IF s = <<>> THEN 0
    ELSE IntVal(SubSeq(s, 1, Len(s) - 1)) * 10 + DigitVal(s[Len(s)])

Unsigned(s) == IF s # <<>> /\ s[1] \in {"-", "+"} THEN Tail(s) ELSE s

DotAt(s) ==
    IF \E i \in DOMAIN s : s[i] = "."
    THEN CHOOSE i \in DOMAIN s : s[i] = "." /\ \A j \in 1..(i - 1) : s[j] # "."
    ELSE Len(s) + 1

IntPart(s) == SubSeq(s, 1, DotAt(s) - 1)
FracPart(s) == SubSeq(s, DotAt(s) + 1, Len(s))

\* whether float(s) succeeds
IsNumericString(s) ==
    LET u == Unsigned(s) IN
    /\ AllDigits(IntPart(u))
    /\ AllDigits(FracPart(u))
    /\ Len(IntPart(u)) + Len(FracPart(u)) >= 1

ParseTenths(s) ==
    LET u == Unsigned(s)
        f == FracPart(u)
        mag == IntVal(IntPart(u)) * 10 + (IF f = <<>> THEN 0 ELSE DigitVal(f[1]))
    IN IF s[1] = "-" THEN 0 - mag ELSE mag

\* a faulty variant: a value that does not parse becomes 0.0
to_numeric_zero(c) ==
    IF c.kind \in {"float", "nan"} THEN c
    ELSE IF c.kind = "str" /\ IsNumericString(c.v) THEN Float(ParseTenths(c.v))
    ELSE Float(0)

\* a faulty variant: whatever is not a numeric string becomes NaN
to_numeric_strings_only(c) ==
    IF c.kind = "str" /\ IsNumericString(c.v) THEN Float(ParseTenths(c.v)) ELSE NaN

\* pd.to_numeric(..., errors='coerce') of one cell
to_numeric(c) ==
    IF c.kind \in {"float", "nan"} THEN c
    ELSE IF c.kind = "str" /\ IsNumericString(c.v) THEN Float(ParseTenths(c.v))
    ELSE NaN

(***************************************************************************)
(* JSON values (the leaves are cells) and HTTP responses.                  *)
(***************************************************************************)
JNull == [t |-> "null"]
JNumber(n) == [t |-> "number", n |-> n]
JString(s) == [t |-> "string", s |-> s]
JArray(items) == [t |-> "array", items |-> items]
JObject(fields) == [t |-> "object", fields |-> fields]

Observation(d, v) == JObject([date |-> Str(d), value |-> Str(v)])
ObservationsBody(obs) == JObject([observations |-> JArray(obs)])

TransportError == [kind |-> "transport_error"]
HttpJson(status, data) == [kind |-> "http", status |-> status, is_json |-> TRUE, data |-> data]
HttpNotJson(status, e) == [kind |-> "http", status |-> status, is_json |-> FALSE, decode_exc |-> e]
NoResponse == [kind |-> "none"]
CachedResponse == [kind |-> "cached"]

\* bool(data)
Truthy(data) ==
    CASE data.t = "null" -> FALSE
      [] data.t = "number" -> data.n # 0
      [] data.t = "string" -> data.s # ""
      [] data.t = "array" -> data.items # <<>>
      [] OTHER -> DOMAIN data.fields # {}

\* 'observations' in data : [exc, val] (in a string, the strings of the model
\* hold the key only when they equal it)
Contains(data, key) ==
    CASE data.t = "object" -> [exc |-> "none", val |-> key \in DOMAIN data.fields]
      [] data.t = "array" ->
            [exc |-> "none",
             val |-> \E i \in DOMAIN data.items :
                        data.items[i].t = "string" /\ data.items[i].s = key]
      [] data.t = "string" -> [exc |-> "none", val |-> data.s = key]
      [] OTHER -> [exc |-> "TypeError", val |-> FALSE]

\* data['observations'] : [exc, val]
GetItem(data, key) ==
    IF data.t = "object"
    THEN IF key \in DOMAIN data.fields
         THEN [exc |-> "none", val |-> data.fields[key]]
         ELSE [exc |-> "KeyError", val |-> JNull]
    ELSE [exc |-> "TypeError", val |-> JNull]

(***************************************************************************)
(* DataFrames: the column names, the index labels and the rows.            *)
(***************************************************************************)
EmptyDF == [cols |-> {}, idx |-> <<>>, rows |-> <<>>]

IsEmpty(d) == d.cols = {} \/ d.rows = <<>>

Raise(e) == [exc |-> e, df |-> EmptyDF]
Return(d) == [exc |-> "none", df |-> d]

\* pd.DataFrame(x) : [exc, df]
DataFrame(x) ==
    CASE x.t = "null" -> Return(EmptyDF)
      [] x.t = "array" ->
            IF x.items = <<>> THEN Return(EmptyDF)
            ELSE IF \A i \in DOMAIN x.items : x.items[i].t = "object"
            THEN LET cols == UNION {DOMAIN x.items[i].fields : i \in DOMAIN x.items}
                 IN Return([cols |-> cols,
                            idx |-> [i \in DOMAIN x.items |-> IntLabel(i - 1)],
                            rows |-> [i \in DOMAIN x.items |->
                                        [c \in cols |->
                                            IF c \in DOMAIN x.items[i].fields
                                            THEN x.items[i].fields[c] ELSE NaN]]])
            ELSE Return([cols |-> {"0"},
                         idx |-> [i \in DOMAIN x.items |-> IntLabel(i - 1)],
                         rows |-> [i \in DOMAIN x.items |-> [c \in {"0"} |-> NaN]]])
      [] OTHER -> Raise("ValueError")

\* df['date'] = pd.to_datetime(df['date'])
AssignDate(d) ==
    IF "date" \notin d.cols THEN Raise("KeyError")
    ELSE IF \E i \in DOMAIN d.rows : to_datetime(d.rows[i]["date"]).exc # "none"
    THEN Raise("ValueError")
    ELSE Return([d EXCEPT !.rows =
                    [i \in DOMAIN d.rows |->
                        [d.rows[i] EXCEPT !["date"] = to_datetime(d.rows[i]["date"]).val]]])

\* df['value'] = pd.to_numeric(df['value'], errors='coerce')
AssignValue(d) ==
    IF "value" \notin d.cols THEN Raise("KeyError")
    ELSE Return([d EXCEPT !.rows =
                    [i \in DOMAIN d.rows |->
                        [d.rows[i] EXCEPT !["value"] = to_numeric(d.rows[i]["value"])]]])

\* df.dropna(subset=['value'], inplace=True)
dropna(d) ==
    LET kept == SelectSeq([i \in DOMAIN d.rows |-> i],
                          LAMBDA i : d.rows[i]["value"].kind # "nan")
    IN [d EXCEPT !.idx = [j \in DOMAIN kept |-> d.idx[kept[j]]],
                 !.rows = [j \in DOMAIN kept |-> d.rows[kept[j]]]]

\* df.set_index('date', inplace=True)
set_index(d) ==
    IF "date" \notin d.cols THEN Raise("KeyError")
    ELSE Return([cols |-> d.cols \ {"date"},
                 idx |-> [i \in DOMAIN d.rows |-> d.rows[i]["date"]],
                 rows |-> [i \in DOMAIN d.rows |->
                             [c \in d.cols \ {"date"} |-> d.rows[i][c]]]])

\* lines 80-89: the frame of the observations, cleaned
Clean(observations) ==
    LET f == DataFrame(observations) IN
    IF f.exc # "none" THEN f ELSE
    LET a == AssignDate(f.df) IN
    IF a.exc # "none" THEN a ELSE
    LET b == AssignValue(a.df) IN
    IF b.exc # "none" THEN b ELSE
    set_index(dropna(b.df))

(***************************************************************************)
(* fetch_fred_data.                                                        *)
(***************************************************************************)
NoSecretsFile == [file |-> FALSE, keys |-> {}]
SecretsFile(keys) == [file |-> TRUE, keys |-> keys]

\* line 62, st.secrets["FRED_API_KEY"]: the exception it raises, or "none".
\* Without any secrets.toml Streamlit raises FileNotFoundError, not KeyError.
SecretLookup(s) ==
    IF ~s.file THEN "FileNotFoundError"
    ELSE IF "FRED_API_KEY" \notin s.keys THEN "KeyError"
    ELSE "none"

\* a faulty variant: the request names the first series whatever the argument
RequestParams_first_series(series_id) ==
    [series_id |-> "DFF", file_type |-> "json", observation_start |-> <<1950, 1, 1>>]

\* lines 67-72: the parameters of the GET (the api_key left out)
RequestParams(series_id) ==
    [series_id |-> series_id, file_type |-> "json", observation_start |-> <<1950, 1, 1>>]

\* lines 61-65: st.secrets["FRED_API_KEY"] raised KeyError
MissingKeyResult == [exc |-> "none", df |-> EmptyDF, msgs |-> <<ERR_NO_KEY>>]

\* lines 90-92
NoObservations == [exc |-> "none", df |-> EmptyDF, msgs |-> <<ERR_NO_OBS>>]

Raised(e) == [exc |-> e, df |-> EmptyDF, msgs |-> <<>>]

\* lines 75-92, the body of the try: [exc, df, msgs]
TryBlock(r) ==
    IF r.kind = "transport_error" THEN Raised("ConnectionError")
    ELSE IF r.status >= 400 /\ r.status < 600 THEN Raised("HTTPError")
    ELSE IF ~r.is_json THEN Raised(r.decode_exc)
    ELSE LET data == r.data IN
         IF ~Truthy(data) THEN NoObservations
         ELSE LET c == Contains(data, "observations") IN
              IF c.exc # "none" THEN Raised(c.exc)
              ELSE IF ~c.val THEN NoObservations
              ELSE LET g == GetItem(data, "observations") IN
                   IF g.exc # "none" THEN Raised(g.exc)
                   ELSE LET k == Clean(g.val) IN
                        IF k.exc # "none" THEN Raised(k.exc)
                        ELSE [exc |-> "none", df |-> k.df, msgs |-> <<>>]

\* requests.exceptions.RequestException and its subclasses
IsRequestException(e) ==
    e \in {"ConnectionError", "Timeout", "HTTPError", "JSONDecodeError"}

\* a faulty variant: only the RequestException handler is there
Catch_requests_only(t) ==
    IF t.exc = "none" THEN t
    ELSE IF IsRequestException(t.exc)
    THEN [exc |-> "none", df |-> EmptyDF, msgs |-> <<ERR_FETCH_FAILED>>]
    ELSE t

\* lines 93-98, the two handlers
Catch(t) ==
    IF t.exc = "none" THEN t
    ELSE IF IsRequestException(t.exc)
    THEN [exc |-> "none", df |-> EmptyDF, msgs |-> <<ERR_FETCH_FAILED>>]
    ELSE [exc |-> "none", df |-> EmptyDF, msgs |-> <<ERR_UNEXPECTED>>]

\* lines 55-98 with the response of the GET given: [exc, df, msgs]
fetch_fred_data(s, r) ==
    IF SecretLookup(s) = "KeyError" THEN MissingKeyResult
    ELSE IF SecretLookup(s) # "none" THEN Raised(SecretLookup(s))
    ELSE Catch(TryBlock(r))

(***************************************************************************)
(* main after the fetch: the date filter and what is put on the page.      *)
(***************************************************************************)
is_monotonic_increasing(idx) ==
    \A i \in 1..(Len(idx) - 1) : idx[i].v <= idx[i + 1].v

\* the rows of d at the positions whose label lies in [lo, hi]
MaskRows(d, lo, hi) ==
    LET kept == SelectSeq([i \in DOMAIN d.idx |-> i],
                          LAMBDA i : lo <= d.idx[i].v /\ d.idx[i].v <= hi)
    IN [d EXCEPT !.idx = [j \in DOMAIN kept |-> d.idx[kept[j]]],
                 !.rows = [j \in DOMAIN kept |-> d.rows[kept[j]]]]

\* line 153: df.loc[a:b] on the DatetimeIndex, a and b ISO date strings.
\* A sorted index is cut by binary search at both labels.  On an index that
\* is not sorted pandas 1.x keeps the rows in [a, b] and pandas 2.x raises
\* KeyError: strict says which.
loc(d, a, b, strict) ==
    LET lo == to_datetime(a).val.v
        hi == to_datetime(b).val.v
        first == Cardinality({i \in DOMAIN d.idx : d.idx[i].v < lo}) + 1
        last == Cardinality({i \in DOMAIN d.idx : d.idx[i].v <= hi})
    IN IF is_monotonic_increasing(d.idx)
       THEN Return([d EXCEPT !.idx = SubSeq(d.idx, first, last),
                             !.rows = SubSeq(d.rows, first, last)])
       ELSE IF strict THEN Raise("KeyError")
       ELSE Return(MaskRows(d, lo, hi))

\* a faulty variant: the comparison the other way round
InvalidRange_swapped(s, e) == DateGt(e, s)

\* lines 137-139: the date-range check
InvalidRange(s, e) == DateGt(s, e)

\* lines 151-202: [crash, df_filtered, msgs, chart]
Display(d, s, e, strict) ==
    IF ~IsEmpty(d)
    THEN LET f == loc(d, isoformat(s), isoformat(e), strict) IN
         IF f.exc # "none"
         THEN [crash |-> f.exc, df_filtered |-> EmptyDF, msgs |-> <<>>, chart |-> FALSE]
         ELSE IF IsEmpty(f.df)
         THEN [crash |-> "none", df_filtered |-> f.df,
               msgs |-> <<WARN_NO_DATA_IN_RANGE>>, chart |-> FALSE]
         ELSE [crash |-> "none", df_filtered |-> f.df,
               msgs |-> <<SUCCESS>>, chart |-> TRUE]
    ELSE [crash |-> "none", df_filtered |-> EmptyDF,
          msgs |-> <<WARN_COULD_NOT_LOAD>>, chart |-> FALSE]

(***************************************************************************)
(* st.cache_data(ttl=3600): a store keyed by the argument; an entry holds  *)
(* the returned frame, the messages the call showed (replayed on a hit)    *)
(* and the time it was stored.                                             *)
(***************************************************************************)
NoEntry == [present |-> FALSE]
Entry(d, m, t) == [present |-> TRUE, value |-> d, msgs |-> m, stored_at |-> t]

\* a faulty variant: an entry never expires
CacheFresh_forever(c, id, t) == c[id].present

\* whether the call for id at time t is served from the store
CacheFresh(c, id, t) == c[id].present /\ t < c[id].stored_at + TTL

CachePut(c, id, d, m, t) == [c EXCEPT ![id] = Entry(d, m, t)]

(***************************************************************************)
(* Inputs of the model.                                                    *)
(***************************************************************************)
WidgetDates == {Date(2020, 6, 1), Date(2020, 6, 15), Date(2020, 6, 30)}

StubDateStrings == {<<2020, 6, 1>>, <<2020, 6, 15>>, <<2020, 6, 30>>}
StubValueStrings == {<<".">>, <<"0", ".", "0">>, <<"1", ".", "5">>, <<"N", "A">>}
StubObservations == {Observation(d, v) : d \in StubDateStrings, v \in StubValueStrings}

SeqsUpTo(S, n) == UNION {[1..k -> S] : k \in 0..n}

\* the responses of the session: every failure class and three payloads
Sorted2 == <<Observation(<<2020, 6, 1>>, <<"1", ".", "5">>),
             Observation(<<2020, 6, 30>>, <<".">>)>>
Unsorted2 == <<Observation(<<2020, 6, 30>>, <<"1", ".", "5">>),
               Observation(<<2020, 6, 1>>, <<"0", ".", "0">>)>>
AllMissing == <<Observation(<<2020, 6, 1>>, <<".">>)>>

FailureResponses ==
    {TransportError,
     HttpJson(400, JObject([error_message |-> JString("Bad Request")])),
     HttpNotJson(200, "JSONDecodeError"),
     HttpNotJson(200, "ValueError"),
     HttpJson(200, JNull),
     HttpJson(200, JNumber(5)),
     HttpJson(200, JObject([error_message |-> JString("Bad Request")])),
     HttpJson(200, JObject([observations |-> JString("none")])),
     HttpJson(200, ObservationsBody(
        <<JObject([value |-> Str(<<"1", ".", "5">>)])>>)),
     HttpJson(200, ObservationsBody(
        <<Observation(<<2020, 13, 1>>, <<"1", ".", "5">>)>>))}

NoObservationsResponses == {HttpJson(200, ObservationsBody(<<>>))}

PayloadResponses ==
    {HttpJson(200, ObservationsBody(p)) : p \in {Sorted2, Unsorted2, AllMissing}}

Responses == FailureResponses \cup NoObservationsResponses \cup PayloadResponses

(***************************************************************************)
(* Spec: a session.                                                        *)
(***************************************************************************)
NotServed == [returned |-> FALSE, hit |-> FALSE, obtained_at |-> 0, at |-> 0]

Init ==
    /\ pc = "idle"
    /\ now = 0
    /\ ticks = 0
    /\ reruns = 0
    /\ secrets \in {NoSecretsFile, SecretsFile({}), SecretsFile({"FRED_API_KEY"})}
    /\ cache = [id \in SeriesIds |-> NoEntry]
    /\ obtained = [id \in SeriesIds |-> NoEntry]
    /\ sel = "Federal Funds Rate (DFF)"
    /\ start_date = Date(2020, 6, 1)
    /\ end_date = Date(2020, 6, 15)
    /\ inflight = {}
    /\ reqs = <<>>
    /\ fetched = FALSE
    /\ served = NotServed
    /\ resp = NoResponse
    /\ df = EmptyDF
    /\ df_filtered = EmptyDF
    /\ msgs = <<>>
    /\ chart = FALSE
    /\ crash = "none"
    /\ recleaned = EmptyDF

\* lines 151-202 run on the frame d that fetch_fred_data returned with the
\* messages m on the page so far
Finish(d, m, s, e, strict) ==
    LET out == Display(d, s, e, strict) IN
    /\ df' = d
    /\ df_filtered' = out.df_filtered
    /\ msgs' = m \o out.msgs
    /\ chart' = out.chart
    /\ crash' = out.crash
    /\ pc' = IF out.crash = "none" THEN "done" ELSE "crashed"

\* main, from its first line to the end or to the GET of fetch_fred_data,
\* with the widgets holding name, s and e
Rerun(name, s, e, strict) ==
    /\ pc \in {"idle", "done", "crashed"}
    /\ reruns < MaxReruns
    /\ reruns' = reruns + 1
    /\ sel' = name
    /\ start_date' = s
    /\ end_date' = e
    /\ UNCHANGED <<now, ticks, secrets, recleaned>>
    /\ LET id == FRED_SERIES[name].id
           key == SecretLookup(secrets)
       IN
       IF InvalidRange(s, e)
       THEN /\ msgs' = <<ERR_DATE_RANGE>>
            /\ pc' = "done"
            /\ fetched' = FALSE
            /\ served' = NotServed
            /\ resp' = NoResponse
            /\ reqs' = <<>>
            /\ df' = EmptyDF
            /\ df_filtered' = EmptyDF
            /\ chart' = FALSE
            /\ crash' = "none"
            /\ UNCHANGED <<cache, obtained, inflight>>
       ELSE IF CacheFresh(cache, id, now)
       THEN /\ fetched' = TRUE
            /\ served' = [returned |-> TRUE, hit |-> TRUE,
                        obtained_at |-> obtained[id].stored_at, at |-> now]
            /\ resp' = CachedResponse
            /\ reqs' = <<>>
            /\ Finish(cache[id].value, <<INFO_HEADER>> \o cache[id].msgs, s, e, strict)
            /\ UNCHANGED <<cache, obtained, inflight>>
       ELSE IF key = "KeyError"
       THEN /\ fetched' = TRUE
            /\ served' = [returned |-> TRUE, hit |-> FALSE, obtained_at |-> now, at |-> now]
            /\ resp' = NoResponse
            /\ reqs' = <<>>
            /\ cache' = CachePut(cache, id, MissingKeyResult.df, MissingKeyResult.msgs, now)
            /\ obtained' = [obtained EXCEPT
                               ![id] = Entry(MissingKeyResult.df, MissingKeyResult.msgs, now)]
            /\ Finish(MissingKeyResult.df, <<INFO_HEADER>> \o MissingKeyResult.msgs,
                      s, e, strict)
            /\ UNCHANGED inflight
       ELSE IF key # "none"
       THEN /\ fetched' = TRUE
            /\ served' = NotServed
            /\ resp' = NoResponse
            /\ reqs' = <<>>
            /\ msgs' = <<INFO_HEADER>>
            /\ pc' = "crashed"
            /\ crash' = key
            /\ df' = EmptyDF
            /\ df_filtered' = EmptyDF
            /\ chart' = FALSE
            /\ UNCHANGED <<cache, obtained, inflight>>
       ELSE /\ fetched' = TRUE
            /\ served' = NotServed
            /\ resp' = NoResponse
            /\ reqs' = <<RequestParams(id)>>
            /\ inflight' = inflight \cup {RequestParams(id)}
            /\ msgs' = <<INFO_HEADER>>
            /\ pc' = "waiting"
            /\ df' = EmptyDF
            /\ df_filtered' = EmptyDF
            /\ chart' = FALSE
            /\ crash' = "none"
            /\ UNCHANGED <<cache, obtained>>

\* the GET returns or raises; fetch_fred_data and main run to the end
Respond(r, strict) ==
    /\ pc = "waiting"
    /\ LET id == FRED_SERIES[sel].id
           out == Catch(TryBlock(r))
       IN /\ inflight' = inflight \ {reqs[Len(reqs)]}
          /\ resp' = r
          /\ IF out.exc # "none"
             THEN /\ crash' = out.exc
                  /\ pc' = "crashed"
                  /\ served' = NotServed
                  /\ UNCHANGED <<cache, obtained, df, df_filtered, msgs, chart>>
             ELSE /\ cache' = CachePut(cache, id, out.df, out.msgs, now)
                  /\ obtained' = [obtained EXCEPT ![id] = Entry(out.df, out.msgs, now)]
                  /\ served' = [returned |-> TRUE, hit |-> FALSE, obtained_at |-> now, at |-> now]
                  /\ Finish(out.df, msgs \o out.msgs, start_date, end_date, strict)
    /\ UNCHANGED <<now, ticks, reruns, secrets, sel, start_date, end_date, reqs,
                   fetched, recleaned>>

\* time passes, one second less than the time to live at a step (the clock
\* of the model starts with the first rerun and stops with the last)
Tick ==
    /\ ticks < MaxTicks
    /\ reruns > 0
    /\ reruns < MaxReruns \/ pc = "waiting"
    /\ ticks' = ticks + 1
    /\ now' = now + (TTL - 1)
    /\ UNCHANGED <<pc, reruns, secrets, cache, obtained, sel, start_date, end_date, inflight,
                   reqs, fetched, served, resp, df, df_filtered, msgs, chart, crash,
                   recleaned>>

\* the page is loaded, or rerun as it is
Load(strict) == Rerun(sel, start_date, end_date, strict)

\* the user gives one widget a new value, which reruns main
SelectSeries(name, strict) ==
    reruns > 0 /\ name # sel /\ Rerun(name, start_date, end_date, strict)

PickStart(d, strict) ==
    reruns > 0 /\ d # start_date /\ Rerun(sel, d, end_date, strict)

PickEnd(d, strict) ==
    reruns > 0 /\ d # end_date /\ Rerun(sel, start_date, d, strict)

Next ==
    \/ \E strict \in BOOLEAN : Load(strict)
    \/ \E name \in DOMAIN FRED_SERIES, strict \in BOOLEAN : SelectSeries(name, strict)
    \/ \E d \in WidgetDates, strict \in BOOLEAN : PickStart(d, strict)
    \/ \E d \in WidgetDates, strict \in BOOLEAN : PickEnd(d, strict)
    \/ \E r \in Responses, strict \in BOOLEAN : Respond(r, strict)
    \/ Tick

Spec == Init /\ [][Next]_vars

(***************************************************************************)
(* SpecStub: fetch_fred_data behind a network stub that returns a          *)
(* well-formed payload, then the rest of main, or the cleaning once more.  *)
(***************************************************************************)
StubResponses ==
    {HttpJson(200, ObservationsBody(p)) : p \in SeqsUpTo(StubObservations, MaxObs)}

\* the observations of a returned frame: one {date, value} record per row
Records(d) ==
    [i \in DOMAIN d.idx |-> JObject([date |-> d.idx[i], value |-> d.rows[i]["value"]])]

\* a frame as a series: the (date, value) pairs in row order
Series(d) == [i \in DOMAIN d.idx |-> <<d.idx[i], d.rows[i]["value"]>>]

InitStub ==
    /\ pc = "stub"
    /\ now = 0
    /\ ticks = 0
    /\ reruns = 0
    /\ secrets = SecretsFile({"FRED_API_KEY"})
    /\ cache = [id \in SeriesIds |-> NoEntry]
    /\ obtained = [id \in SeriesIds |-> NoEntry]
    /\ sel \in DOMAIN FRED_SERIES
    /\ start_date \in WidgetDates
    /\ end_date \in WidgetDates
    /\ ~InvalidRange(start_date, end_date)
    /\ inflight = {}
    /\ reqs = <<>>
    /\ fetched = FALSE
    /\ served = NotServed
    /\ resp \in StubResponses
    /\ df = EmptyDF
    /\ df_filtered = EmptyDF
    /\ msgs = <<>>
    /\ chart = FALSE
    /\ crash = "none"
    /\ recleaned = EmptyDF

\* line 149 with the stub's response
StubFetch ==
    /\ pc = "stub"
    /\ LET out == fetch_fred_data(secrets, resp) IN
       /\ df' = out.df
       /\ msgs' = out.msgs
    /\ fetched' = TRUE
    /\ pc' = "fetched"
    /\ UNCHANGED <<now, ticks, reruns, secrets, cache, obtained, sel, start_date, end_date,
                   inflight, reqs, served, resp, df_filtered, chart, crash, recleaned>>

\* lines 151-202
StubDisplay(strict) ==
    /\ pc = "fetched"
    /\ Finish(df, msgs, start_date, end_date, strict)
    /\ UNCHANGED <<now, ticks, reruns, secrets, cache, obtained, sel, start_date, end_date,
                   inflight, reqs, fetched, served, resp, recleaned>>

\* the stub returns the observations of the cleaned frame, fetched again
StubReclean ==
    /\ pc = "fetched"
    /\ recleaned' = fetch_fred_data(secrets, HttpJson(200, ObservationsBody(Records(df)))).df
    /\ pc' = "recleaned"
    /\ UNCHANGED <<now, ticks, reruns, secrets, cache, obtained, sel, start_date, end_date,
                   inflight, reqs, fetched, served, resp, df, df_filtered, msgs,
                   chart, crash>>

NextStub ==
    \/ StubFetch
    \/ \E strict \in BOOLEAN : StubDisplay(strict)
    \/ StubReclean

SpecStub == InitStub /\ [][NextStub]_vars

(***************************************************************************)
(* The claims.                                                             *)
(***************************************************************************)
Shown(m) == \E i \in DOMAIN msgs : msgs[i] = m

RerunEnded == reruns > 0 /\ pc \in {"done", "crashed"}

SelectedId == FRED_SERIES[sel].id

\* the observations of the payload the stub returned
Payload == resp.data.fields.observations.items

ValueString(o) == o.fields.value.v
DateString(o) == o.fields.date.v

OrdinalOf(d) == Ordinal(d.year, d.month, d.day)

\* the pairs of a series whose date lies in [start_date, end_date]
InRange(series) ==
    SelectSeq(series, LAMBDA p : OrdinalOf(start_date) <= p[1].v /\ p[1].v <= OrdinalOf(end_date))

FetchErrors == {ERR_NO_KEY, ERR_NO_OBS, ERR_FETCH_FAILED, ERR_UNEXPECTED}
FetchErrorShown == \E m \in FetchErrors : Shown(m)

\* C1 (SpecStub): the series fetch_fred_data returns for a well-formed
\* payload is sorted ascending by date, whatever the order of the payload.
C1_FetchedSeriesSorted ==
    fetched =>
        \A i, j \in DOMAIN df.idx : i < j => df.idx[i].v <= df.idx[j].v

\* C2 (SpecStub): the returned series holds, in payload order, exactly one
\* row for each observation whose value string is numeric, with that number
\* as its value, and no row for any other observation (never a 0.0 in its
\* place); its length is the observation count minus the missing entries.
C2_MissingDroppedNeverZero ==
    fetched =>
        LET numeric == SelectSeq(Payload, LAMBDA o : IsNumericString(ValueString(o)))
            missing == {i \in DOMAIN Payload : ~IsNumericString(ValueString(Payload[i]))}
        IN /\ Len(df.idx) = Len(Payload) - Cardinality(missing)
           /\ Len(df.rows) = Len(numeric)
           /\ \A i \in DOMAIN numeric :
                /\ df.rows[i]["value"] = Float(ParseTenths(ValueString(numeric[i])))
                /\ df.idx[i] = Ts(Ordinal(DateString(numeric[i])[1],
                                          DateString(numeric[i])[2],
                                          DateString(numeric[i])[3]))

C2_Witness ==
    /\ fetched
    /\ Len(Payload) = 2
    /\ ValueString(Payload[1]) = <<".">>
    /\ ValueString(Payload[2]) = <<"0", ".", "0">>
    /\ Len(df.rows) = 1
    /\ df.rows[1]["value"] = Float(0)

\* C3 (Spec): a rerun whose start date is after its end date shows the
\* date-range error and ends before fetch_fred_data is called: no request,
\* no chart, no data preview.
C3_InvalidRangeRejected ==
    (reruns > 0 /\ DateGt(start_date, end_date)) =>
        /\ pc = "done"
        /\ msgs = <<ERR_DATE_RANGE>>
        /\ ~fetched
        /\ reqs = <<>>
        /\ inflight = {}
        /\ ~chart
        /\ IsEmpty(df_filtered)

C3_Witness ==
    /\ reruns > 1
    /\ DateGt(start_date, end_date)
    /\ pc = "done"
    /\ Shown(ERR_DATE_RANGE)

\* the failure classes of a response
TransportFailed(r) == r.kind = "transport_error"
NonSuccessStatus(r) == r.kind = "http" /\ r.status \notin 200..299
WellFormedObservation(o) ==
    /\ o.t = "object"
    /\ DOMAIN o.fields = {"date", "value"}
    /\ ValidDateString(o.fields.date.v)
UsableBody(r) ==
    /\ r.is_json
    /\ r.data.t = "object"
    /\ "observations" \in DOMAIN r.data.fields
    /\ r.data.fields.observations.t = "array"
    /\ r.data.fields.observations.items # <<>>
    /\ \A i \in DOMAIN r.data.fields.observations.items :
            WellFormedObservation(r.data.fields.observations.items[i])
MalformedBody(r) == r.kind = "http" /\ r.status \in 200..299 /\ ~UsableBody(r)
RequestFailed(r) == TransportFailed(r) \/ NonSuccessStatus(r) \/ MalformedBody(r)

\* C4 (Spec): when the GET fails in transport, returns a non-success status
\* or a malformed body, fetch_fred_data shows an error message and returns
\* an empty series, and no exception escapes it.
C4_FailureGivesEmptySeries ==
    (pc \in {"done", "crashed"} /\ RequestFailed(resp)) =>
        /\ crash = "none"
        /\ df = EmptyDF
        /\ Shown(ERR_FETCH_FAILED) \/ Shown(ERR_UNEXPECTED) \/ Shown(ERR_NO_OBS)
        /\ cache[SelectedId].present /\ cache[SelectedId].value = EmptyDF

C4_Witness ==
    /\ pc = "done"
    /\ resp = HttpJson(200, JNumber(5))
    /\ Shown(ERR_UNEXPECTED)
    /\ df = EmptyDF

\* C5 (SpecStub): for a fetched non-empty series and bounds start <= end the
\* date filter of main returns exactly the observations dated within
\* [start, end], both bounds included, in their original order.
C5_FilterReturnsRange ==
    (pc \in {"done", "crashed"} /\ ~IsEmpty(df)) =>
        /\ crash = "none"
        /\ Series(df_filtered) = InRange(Series(df))

\* a step that calls fetch_fred_data for an id whose last result is less than
\* TTL seconds old returns that result and requests nothing
C6_FreshResultReused ==
    LET id == FRED_SERIES[sel'].id IN
    (reruns' = reruns + 1 /\ fetched'
        /\ obtained[id].present /\ now - obtained[id].stored_at < TTL) =>
            /\ df' = obtained[id].value
            /\ reqs' = <<>>
            /\ pc' # "waiting"
            /\ obtained' = obtained

\* a result served from the store is the last one obtained for the id, and
\* it is no more than TTL seconds old
C6_NothingStale ==
    (fetched /\ pc \in {"done", "crashed"} /\ served.hit) =>
        /\ served.at - served.obtained_at <= TTL
        /\ df = obtained[SelectedId].value
        /\ obtained[SelectedId].stored_at = served.obtained_at

\* C6 (Spec): a call of fetch_fred_data for a series id whose previous
\* result (data or a failure's empty result) was obtained less than 3600
\* seconds ago returns that result without a network request; and no call
\* returns a result obtained more than 3600 seconds earlier.
C6_OneHourCache == [][C6_FreshResultReused]_vars /\ []C6_NothingStale

C6_Witness ==
    /\ pc = "done"
    /\ served.hit
    /\ served.at - served.obtained_at = TTL - 1
    /\ reqs = <<>>
    /\ df = EmptyDF
    /\ Shown(ERR_FETCH_FAILED)

\* C7 (Spec): in a rerun where the fetch succeeded and the date filter
\* leaves no observations the "no data available" warning is shown and the
\* "could not load data" warning is not; and "could not load data" is shown
\* only in reruns where the fetch itself failed.
C7_EmptyByBoundsDistinct ==
    RerunEnded =>
        /\ (served.returned /\ ~FetchErrorShown /\ InRange(Series(df)) = <<>>) =>
                (Shown(WARN_NO_DATA_IN_RANGE) /\ ~Shown(WARN_COULD_NOT_LOAD))
        /\ Shown(WARN_COULD_NOT_LOAD) => FetchErrorShown

\* C8 (Spec): every rerun of main ends normally with an inline message and
\* never with an unhandled exception, whatever the error class.
C8_EveryRerunEndsNormally ==
    RerunEnded =>
        /\ pc = "done"
        /\ crash = "none"
        /\ \E m \in {ERR_DATE_RANGE, WARN_NO_DATA_IN_RANGE, WARN_COULD_NOT_LOAD, SUCCESS} :
                Shown(m)

C10_OneRequestPerRerun ==
    /\ Len(reqs) <= 1
    /\ Cardinality(inflight) <= 1
    /\ \A i \in DOMAIN reqs : reqs[i].series_id = SelectedId /\ reqs[i].series_id \in SeriesIds
    /\ \A q \in inflight : pc = "waiting" /\ reqs = <<q>>
    /\ (RerunEnded /\ resp.kind \in {"transport_error", "http"}) =>
            (Len(reqs) = 1 /\ inflight = {})

C10_Witness ==
    /\ pc = "done"
    /\ reruns = 2
    /\ sel = "Real GDP (GDPC1)"
    /\ resp = TransportError
    /\ reqs = <<RequestParams("GDPC1")>>
    /\ inflight = {}

====
